---- MODULE Spec2Model ----
(***************************************************************************)
(* Model of src/app.py: the costing engine (calculate_service_cost,        *)
(* calculate_material_quantity), the /cost and /material handlers that     *)
(* call it, and the partner form handler edit_partner, over the tables of  *)
(* the SQLAlchemy models.                                                  *)
(*                                                                         *)
(* Numeric columns hold exact decimals and are kept as integers in the     *)
(* unit of the column (hundredths, tenths).  The engine converts them with *)
(* float() and computes in binary64; that arithmetic is modelled exactly:  *)
(* a float is a 53-bit significand m and an exponent e, standing for       *)
(* m * 2^e, and every operation rounds to nearest, ties to even.  TLC's    *)
(* integers are 32 bits wide, so a significand is a little-endian sequence *)
(* of 13-bit limbs.                                                        *)
(***************************************************************************)
EXTENDS Integers, Sequences, FiniteSets, TLC

VARIABLES
    service_types,      \* type_name -> complexity_coefficient, in tenths
    material_types,     \* type_name -> overconsumption_percent, in hundredths
    services,           \* service_code -> [time_norm_hours, hourly_rate], in hundredths
    materials,          \* material_id -> [current_price], in hundredths
    service_materials,  \* the rows of service_materials, in storage order
    partners,           \* partner_id -> [partner_name, inn]
    orders,             \* the rows of orders
    pc,                 \* "idle", "called" while a call or request is being served, then "done"
    req,                \* the call or request being served, or the last one served
    ret,                \* what the last engine call returned
    log,                \* what the last engine call passed to logger.error ("" if nothing)
    resp,               \* what the last handler answered
    isolation,          \* the store's read consistency inside one transaction
    wpc,                \* per worker: the position of its /cost request
    wloc,               \* per worker: the locals of calculate_service_cost
    session,            \* per worker: the identity map of db.session
    hist,               \* per worker: the catalog when the call began, and whether a write committed since
    nupdates,           \* catalog writes committed so far
    ppc,                \* per worker: the position of its partner form request
    preq,               \* per worker: the partner form being served
    nreq                \* partner form requests accepted so far

tables == <<service_types, material_types, services, materials, service_materials, partners, orders>>
callvars == <<pc, req, ret, log, resp>>
concvars == <<isolation, wpc, wloc, session, hist, nupdates>>
partnervars == <<ppc, preq, nreq>>
vars == <<tables, callvars, concvars, partnervars>>

Max(a, b) == IF a >= b THEN a ELSE b
Min(a, b) == IF a <= b THEN a ELSE b

(***************************************************************************)
(* Natural numbers of any size: little-endian sequences of limbs.          *)
(***************************************************************************)
LimbBits == 13
Base == 8192
MantBits == 53

RECURSIVE TrimBig(_)
TrimBig(a) == IF a = <<>> THEN a ELSE IF a[Len(a)] # 0 THEN a ELSE TrimBig(SubSeq(a, 1, Len(a) - 1))

RECURSIVE Carry(_, _, _)
Carry(d, i, c) ==
    IF i > Len(d)
    THEN IF c = 0 THEN <<>> ELSE <<c % Base>> \o Carry(d, i, c \div Base)
    ELSE <<(d[i] + c) % Base>> \o Carry(d, i + 1, (d[i] + c) \div Base)

BigAdd(a, b) ==
    TrimBig(Carry([i \in 1..Max(Len(a), Len(b)) |->
                     (IF i <= Len(a) THEN a[i] ELSE 0) + (IF i <= Len(b) THEN b[i] ELSE 0)], 1, 0))

RECURSIVE Conv(_, _, _, _)
Conv(a, b, k, i) ==
    IF i > Len(a) THEN 0
    ELSE (IF k + 1 - i >= 1 /\ k + 1 - i <= Len(b) THEN a[i] * b[k + 1 - i] ELSE 0) + Conv(a, b, k, i + 1)

BigMul(a, b) == TrimBig(Carry([k \in 1..(Len(a) + Len(b)) |-> Conv(a, b, k, 1)], 1, 0))

RECURSIVE IntToBig(_)
IntToBig(n) == IF n = 0 THEN <<>> ELSE <<n % Base>> \o IntToBig(n \div Base)

RECURSIVE BigToInt(_)
BigToInt(a) == IF a = <<>> THEN 0 ELSE a[1] + Base * BigToInt(Tail(a))

\* a divided by the small integer d, most significant limb first
RECURSIVE DivSmall(_, _, _, _, _)
DivSmall(a, d, i, rem, acc) ==
    IF i = 0 THEN [q |-> TrimBig(acc), r |-> rem]
    ELSE DivSmall(a, d, i - 1, (rem * Base + a[i]) % d, <<(rem * Base + a[i]) \div d>> \o acc)

Pow2(s) == [i \in 1..(s \div LimbBits + 1) |-> IF i = s \div LimbBits + 1 THEN 2 ^ (s % LimbBits) ELSE 0]

ShiftLeft(a, s) == IF a = <<>> THEN a ELSE BigMul(a, Pow2(s))

\* the quotient dr.q, and whether the division or the limbs dropped before it left a remainder
WithSticky(dr, low) == [q |-> dr.q, sticky |-> dr.r # 0 \/ low]

\* floor(a / 2^s), and whether anything non-zero was shifted out
ShiftRight(a, s) ==
    WithSticky(DivSmall(SubSeq(a, s \div LimbBits + 1, Len(a)), 2 ^ (s % LimbBits),
                        Max(Len(a) - s \div LimbBits, 0), 0, <<>>),
               \E i \in 1..Min(s \div LimbBits, Len(a)) : a[i] # 0)

BitLen(a) ==
    IF a = <<>> THEN 0
    ELSE (Len(a) - 1) * LimbBits
         + CHOOSE k \in 1..LimbBits : 2 ^ (k - 1) <= a[Len(a)] /\ a[Len(a)] < 2 ^ k

Odd(a) == a # <<>> /\ a[1] % 2 = 1

\* q, or q + 1 when the half bit is set and the rest or the parity of q breaks the tie upwards
RoundUpIf(q, half, sticky) == IF half /\ (sticky \/ Odd(q)) THEN BigAdd(q, <<1>>) ELSE q

\* t.q / 2 rounded to the nearest integer, ties to even, t.sticky standing for bits below t.q
HalfEven(t) == RoundUpIf(ShiftRight(t.q, 1).q, Odd(t.q), t.sticky)

\* a / 2^sh rounded to the nearest integer, ties to even
ShiftRoundEven(a, sh) == IF sh = 0 THEN a ELSE HalfEven(ShiftRight(a, sh - 1))

\* floor(a / 10^k), four digits at a time, and whether a remainder was dropped
RECURSIVE DivPow10(_, _, _)
DivPow10Step(d, k, sticky) == DivPow10(d.q, k, sticky \/ d.r # 0)
DivPow10(a, k, sticky) ==
    IF k = 0 THEN [q |-> a, sticky |-> sticky]
    ELSE DivPow10Step(DivSmall(a, 10 ^ Min(k, 4), Len(a), 0, <<>>), k - Min(k, 4), sticky)

\* the integer hi * 10^8 + lo
DecToBig(hi, lo) == BigAdd(BigMul(IntToBig(hi), IntToBig(100000000)), IntToBig(lo))

(***************************************************************************)
(* Python floats (binary64; the magnitudes here stay far from overflow     *)
(* and from the subnormal range).                                          *)
(***************************************************************************)
FZero == [nan |-> FALSE, neg |-> FALSE, m |-> <<>>, e |-> 0]
NaN == [nan |-> TRUE, neg |-> FALSE, m |-> <<>>, e |-> 0]

Finite(neg, m, e) == [nan |-> FALSE, neg |-> neg, m |-> m, e |-> e]

\* a rounded significand r of 53 or (after a carry out of the top bit) 54 bits
Renormalise(neg, r, e) ==
    IF BitLen(r) > MantBits THEN Finite(neg, ShiftRight(r, 1).q, e + 1) ELSE Finite(neg, r, e)

\* the float nearest to a * 2^e, a of L bits: the significand normalised to 53 bits
RoundBits(neg, a, e, L) ==
    IF L = 0 THEN FZero
    ELSE IF L <= MantBits THEN Finite(neg, ShiftLeft(a, MantBits - L), e - (MantBits - L))
    ELSE Renormalise(neg, ShiftRoundEven(a, L - MantBits), e + (L - MantBits))

RoundDouble(neg, a, e) == RoundBits(neg, a, e, BitLen(a))

\* x * y
FMul(x, y) == IF x.nan \/ y.nan THEN NaN ELSE RoundDouble(x.neg # y.neg, BigMul(x.m, y.m), x.e + y.e)

\* x + y, for operands that are not negative
FAdd(x, y) ==
    IF x.nan \/ y.nan THEN NaN
    ELSE IF x.m = <<>> THEN y
    ELSE IF y.m = <<>> THEN x
    ELSE RoundDouble(FALSE,
                     BigAdd(ShiftLeft(x.m, x.e - Min(x.e, y.e)), ShiftLeft(y.m, y.e - Min(x.e, y.e))),
                     Min(x.e, y.e))

\* the float nearest to (d.q + a fraction that d.sticky says is non-zero) * 2^e:
\* the fraction is kept as one more low bit
RoundQuotient(neg, d, e) ==
    RoundDouble(neg, TrimBig(Carry([i \in 1..Len(d.q) |-> 2 * d.q[i]], 1, IF d.sticky THEN 1 ELSE 0)),
                e - 1)

\* float(d) of the decimal d = a / 10^k, correctly rounded
FromDecimal(neg, a, k) ==
    RoundQuotient(neg, DivPow10(ShiftLeft(a, 60 + 4 * k), k, FALSE), 0 - (60 + 4 * k))

\* float(n) of an int
FromInt(n) == IF n < 0 THEN RoundDouble(TRUE, IntToBig(0 - n), 0) ELSE RoundDouble(FALSE, IntToBig(n), 0)

\* the least integer not below t.q + (a fraction that t.sticky says is non-zero)
CeilOf(t) == BigToInt(t.q) + (IF t.sticky THEN 1 ELSE 0)

\* math.ceil(x) of a finite x >= 0
ceil(x) == IF x.e >= 0 THEN BigToInt(ShiftLeft(x.m, x.e)) ELSE CeilOf(ShiftRight(x.m, 0 - x.e))

\* a * 2^e rounded to the nearest integer, ties to even
RoundScaled(a, e) == IF e >= 0 THEN BigToInt(ShiftLeft(a, e)) ELSE BigToInt(ShiftRoundEven(a, 0 - e))

\* round(x, 2) of a finite x >= 0, in hundredths: the nearest multiple of 0.01 to the
\* exact binary value of x, ties to even
round2(x) == RoundScaled(BigMul(x.m, IntToBig(100)), x.e)

(***************************************************************************)
(* Python values handed to the engine, and the strings of a submitted form *)
(***************************************************************************)
PyInt(n) == [t |-> "int", i |-> n, f |-> FZero]
PyFloat(x) == [t |-> "float", i |-> 0, f |-> x]
PyStr == [t |-> "str", i |-> 0, f |-> FZero]

\* LeZero with < in place of <=
LtZero(v) == IF v.t = "int" THEN v.i < 0 ELSE ~v.f.nan /\ v.f.neg

\* v <= 0 for a number v (False for nan)
LeZero(v) == IF v.t = "int" THEN v.i <= 0 ELSE ~v.f.nan /\ (v.f.neg \/ v.f.m = <<>>)

\* the float a number takes part in float arithmetic as
AsFloat(v) == IF v.t = "int" THEN FromInt(v.i) ELSE v.f

\* a form field: a decimal numeral of digits hi*10^8 + lo with `scale` digits after
\* the point ("3" has scale 0, "3.0" scale 1), the text "nan", or other text
Numeral(neg, hi, lo, scale) == [kind |-> "num", neg |-> neg, hi |-> hi, lo |-> lo, scale |-> scale]
NanText == [kind |-> "nan", neg |-> FALSE, hi |-> 0, lo |-> 0, scale |-> 0]
OtherText == [kind |-> "text", neg |-> FALSE, hi |-> 0, lo |-> 0, scale |-> 0]

\* int(s) raises ValueError unless s is an integer numeral
IntRaises(s) == s.kind # "num" \/ s.scale # 0
int(s) == IF s.neg THEN 0 - s.lo ELSE s.lo

\* float(s) raises ValueError on text that is no number; "nan" parses
FloatRaises(s) == s.kind = "text"
float(s) ==
    IF s.kind = "nan" THEN NaN
    ELSE FromDecimal(s.neg, DecToBig(s.hi, s.lo), s.scale)

(***************************************************************************)
(* The costing engine                                                      *)
(***************************************************************************)
\* `return -1` of calculate_service_cost, in hundredths, and of calculate_material_quantity
CostFailure == -100
QuantityFailure == -1

Returned(v) == [value |-> v, log |-> ""]
CostFailed(msg) == [value |-> CostFailure, log |-> msg]
QuantityFailed(msg) == [value |-> QuantityFailure, log |-> msg]

\* ServiceMaterial.query.filter_by(service_code=service_code).all()
RowsOf(sms, service_code) == SelectSeq(sms, LAMBDA sm : sm.service_code = service_code)

\* float(sm.consumption_norm * material.current_price): the Decimal product is exact,
\* with four decimal places
MaterialTerm(sm, material) == FromDecimal(FALSE, IntToBig(sm.consumption_norm * material.current_price), 4)

\* MaterialLoop with `continue` in place of the early return: a row whose material is
\* missing is skipped
RECURSIVE MaterialLoopSkipping(_, _, _, _)
MaterialLoopSkipping(mats, rows, i, material_cost) ==
    IF i > Len(rows) THEN [found |-> TRUE, material_cost |-> material_cost]
    ELSE IF rows[i].material_id \notin DOMAIN mats
         THEN MaterialLoopSkipping(mats, rows, i + 1, material_cost)
         ELSE MaterialLoopSkipping(mats, rows, i + 1,
                                   FAdd(material_cost, MaterialTerm(rows[i], mats[rows[i].material_id])))

\* the for loop over service_materials, from row i on
RECURSIVE MaterialLoop(_, _, _, _)
MaterialLoop(mats, rows, i, material_cost) ==
    IF i > Len(rows) THEN [found |-> TRUE, material_cost |-> material_cost]
    ELSE IF rows[i].material_id \notin DOMAIN mats
         THEN [found |-> FALSE, material_cost |-> material_cost]
         ELSE MaterialLoop(mats, rows, i + 1,
                           FAdd(material_cost, MaterialTerm(rows[i], mats[rows[i].material_id])))

\* float(service.time_norm_hours * service.hourly_rate)
LaborCost(service) == FromDecimal(FALSE, IntToBig(service.time_norm_hours * service.hourly_rate), 4)

\* the end of calculate_service_cost: the loop's early return, or the rounded total
TotalCost(labor_cost, loop) ==
    IF ~loop.found THEN CostFailed("Material not found for service material")
    ELSE Returned(round2(FAdd(labor_cost, loop.material_cost)))

\* calculate_service_cost from the second query on
CostOfRows(service, mats, rows) ==
    IF rows = <<>> THEN CostFailed("No materials found for service")
    ELSE TotalCost(LaborCost(service), MaterialLoop(mats, rows, 1, FZero))

\* calculate_service_cost over the tables svcs, sms, mats
ServiceCostOn(svcs, sms, mats, service_code) ==
    IF service_code \notin DOMAIN svcs THEN CostFailed("Service not found")
    ELSE CostOfRows(svcs[service_code], mats, RowsOf(sms, service_code))

calculate_service_cost(service_code) == ServiceCostOn(services, service_materials, materials, service_code)

\* return math.ceil(total_quantity): math.ceil raises ValueError on nan, and the except
\* clause logs and returns -1
CeilOrRaise(total_quantity) ==
    IF total_quantity.nan THEN QuantityFailed("Error calculating material quantity")
    ELSE Returned(ceil(total_quantity))

calculate_material_quantity(service_type, material_type, quantity, service_params) ==
    IF quantity.t # "int" \/ quantity.i <= 0 THEN QuantityFailed("Invalid quantity")
    ELSE IF service_params.t \notin {"int", "float"} \/ LeZero(service_params)
         THEN QuantityFailed("Invalid service_params")
    ELSE IF service_type \notin DOMAIN service_types THEN QuantityFailed("Service type not found")
    ELSE IF material_type \notin DOMAIN material_types THEN QuantityFailed("Material type not found")
    ELSE LET base_quantity   == FMul(AsFloat(service_params),
                                     FromDecimal(FALSE, IntToBig(service_types[service_type]), 1))
             overconsumption == FromDecimal(FALSE, IntToBig(material_types[material_type]), 2)
             total_quantity  == FMul(FMul(base_quantity, FromInt(quantity.i)),
                                     FAdd(FromInt(1), overconsumption))
         IN  CeilOrRaise(total_quantity)

(***************************************************************************)
(* Bounds, and the catalogs and inputs the specifications range over       *)
(***************************************************************************)
MaxRows == 2
MaxQuantity == 3
MaxUpdates == 2
MaxRequests == 3

Codes == {"S1", "S2"}
MaterialIds == {1, 2}
Workers == {"w1", "w2"}

\* the names a caller may pass: those of the tables and one that no table holds
CallCodes == Codes \cup {"S9"}
CallServiceTypes == {"A", "Z"}
CallMaterialTypes == {"B", "Z"}

\* no two rows of service_materials share the primary key (service_code, material_id)
PrimaryKeyHolds(rows) ==
    \A i, j \in 1..Len(rows) :
        i # j => rows[i].service_code # rows[j].service_code \/ rows[i].material_id # rows[j].material_id

\* The catalogs a call can meet. A row of service_materials may name a material
\* that is absent: the ForeignKey of line 85 is declared, but the store behind
\* DATABASE_URL need not enforce it (SQLite does not unless asked to), and the
\* code itself tests for the missing material (lines 105-107).
CostTablesIn(T, R, N, P, rowcodes) ==
    /\ services \in {[c \in D |-> row] : D \in {{}, {"S1"}, Codes},
                                          row \in [time_norm_hours : T, hourly_rate : R]}
    /\ materials \in UNION {[D -> [current_price : P]] : D \in SUBSET MaterialIds}
    /\ service_materials \in
          {rows \in UNION {[1..k -> [service_code : rowcodes, material_id : MaterialIds,
                                     consumption_norm : N]] : k \in 0..MaxRows} :
              PrimaryKeyHolds(rows)}

TypeTablesIn(C, O) ==
    /\ service_types \in [{"A"} -> C]
    /\ material_types \in [{"B"} -> O]

\* form fields for service_params: text, "nan", "-1.5", "0", "0.5", "2.0", "3.0",
\* "3.3333333333333335"
ParamForms ==
    {OtherText, NanText, Numeral(TRUE, 0, 15, 1), Numeral(FALSE, 0, 0, 0), Numeral(FALSE, 0, 5, 1),
     Numeral(FALSE, 0, 20, 1), Numeral(FALSE, 0, 30, 1), Numeral(FALSE, 333333333, 33333335, 16)}

\* form fields for quantity: text, "2.5", "-1", "0" .. MaxQuantity
QuantityForms ==
    {OtherText, Numeral(FALSE, 0, 25, 1), Numeral(TRUE, 0, 1, 0)}
    \cup {Numeral(FALSE, 0, i, 0) : i \in 0..MaxQuantity}

\* values for service_params: a str, the int 2, and the floats of the numerals above
Params == {PyStr, PyInt(2)} \cup {PyFloat(float(f)) : f \in ParamForms \ {OtherText}}

\* values for quantity: a str, the float 2.5, the ints -1 .. MaxQuantity
Quantities ==
    {PyStr, PyFloat(float(Numeral(FALSE, 0, 25, 1)))} \cup {PyInt(i) : i \in (0 - 1)..MaxQuantity}

PartnerTablesFixed ==
    /\ partners = [id \in {1} |-> [partner_name |-> "n1", inn |-> "i1"]]
    /\ orders = <<[service_code |-> "S1", partner_id |-> 1, quantity |-> 1]>>

(***************************************************************************)
(* Calls and requests, and what they answer                                *)
(***************************************************************************)
NoReq == [kind |-> "none", service_code |-> "", service_type |-> "", material_type |-> "",
          quantity |-> PyStr, service_params |-> PyStr,
          form_quantity |-> OtherText, form_service_params |-> OtherText]

NoRet == [fn |-> "none", value |-> 0]
NoResp == [kind |-> "none", page |-> "", flash |-> "none", message |-> "", shown |-> <<>>]

Redirect(target, category, message, shown) ==
    [kind |-> "redirect", page |-> target, flash |-> category, message |-> message, shown |-> shown]
Render(template, shown) ==
    [kind |-> "render", page |-> template, flash |-> "none", message |-> "", shown |-> shown]

\* a call or request r arrives
Arrives(r) ==
    /\ req' = r
    /\ pc' = "called"
    /\ UNCHANGED <<tables, ret, log, resp, concvars, partnervars>>

\* the call returns r.value, having logged r.log
Returns(fn, r) == ret' = [fn |-> fn, value |-> r.value] /\ log' = r.log

\* a direct call of calculate_service_cost(service_code)
InvokeServiceCost ==
    /\ pc = "idle"
    /\ \E c \in CallCodes : Arrives([NoReq EXCEPT !.kind = "calculate_service_cost", !.service_code = c])

\* RunServiceCost deleting the rows it found to reference a missing material
RunServiceCostPruning ==
    /\ pc = "called" /\ req.kind = "calculate_service_cost"
    /\ Returns("calculate_service_cost", calculate_service_cost(req.service_code))
    /\ service_materials' = SelectSeq(service_materials, LAMBDA sm : sm.material_id \in DOMAIN materials)
    /\ pc' = "done"
    /\ UNCHANGED <<service_types, material_types, services, materials, partners, orders,
                   req, resp, concvars, partnervars>>

RunServiceCost ==
    /\ pc = "called" /\ req.kind = "calculate_service_cost"
    /\ Returns("calculate_service_cost", calculate_service_cost(req.service_code))
    /\ pc' = "done"
    /\ UNCHANGED <<tables, req, resp, concvars, partnervars>>

\* a direct call of calculate_material_quantity(service_type, material_type, quantity, service_params)
InvokeMaterialQuantity ==
    /\ pc = "idle"
    /\ \E st \in CallServiceTypes, mt \in CallMaterialTypes, q \in Quantities, sp \in Params :
           Arrives([NoReq EXCEPT !.kind = "calculate_material_quantity", !.service_type = st,
                                 !.material_type = mt, !.quantity = q, !.service_params = sp])

RunMaterialQuantity ==
    /\ pc = "called" /\ req.kind = "calculate_material_quantity"
    /\ Returns("calculate_material_quantity",
               calculate_material_quantity(req.service_type, req.material_type,
                                           req.quantity, req.service_params))
    /\ pc' = "done"
    /\ UNCHANGED <<tables, req, resp, concvars, partnervars>>

\* GET /cost/<service_code>
InvokeCost ==
    /\ pc = "idle"
    /\ \E c \in CallCodes : Arrives([NoReq EXCEPT !.kind = "cost", !.service_code = c])

cost(service_code, total_cost) ==
    IF service_code \notin DOMAIN services
    THEN Redirect("index", "error", "service not found", <<>>)
    ELSE Render("cost.html", <<total_cost>>)

\* total_cost = calculate_service_cost(service_code), and the handler's answer
CostAnswers(service_code, r) ==
    /\ Returns("calculate_service_cost", r)
    /\ resp' = cost(service_code, r.value)

RunCost ==
    /\ pc = "called" /\ req.kind = "cost"
    /\ CostAnswers(req.service_code, calculate_service_cost(req.service_code))
    /\ pc' = "done"
    /\ UNCHANGED <<tables, req, concvars, partnervars>>

\* POST /material
InvokeMaterial ==
    /\ pc = "idle"
    /\ \E st \in CallServiceTypes, mt \in CallMaterialTypes, q \in QuantityForms, sp \in ParamForms :
           Arrives([NoReq EXCEPT !.kind = "material", !.service_type = st, !.material_type = mt,
                                 !.form_quantity = q, !.form_service_params = sp])

\* the handler up to the engine call: the answer it gives without calling, if any
MaterialRejects(form_quantity, form_service_params) ==
    IF IntRaises(form_quantity) \/ FloatRaises(form_service_params)
    THEN Redirect("material", "error", "invalid data", <<>>)
    ELSE IF int(form_quantity) <= 0
    THEN Redirect("material", "error", "quantity must be positive", <<>>)
    ELSE IF LeZero(PyFloat(float(form_service_params)))
    THEN Redirect("material", "error", "service params must be positive", <<>>)
    ELSE NoResp

\* the handler after the engine call
MaterialAnswers(result) ==
    IF result = QuantityFailure
    THEN Redirect("material", "error", "wrong service or material type", <<>>)
    ELSE Redirect("material", "success", "required quantity", <<result>>)

\* result = calculate_material_quantity(...), and the handler's answer
MaterialCalls(r) ==
    /\ Returns("calculate_material_quantity", r)
    /\ resp' = MaterialAnswers(r.value)

\* the handler's body: answer `rejection` if there is one, else call the engine
material(rejection, service_type, material_type, form_quantity, form_service_params) ==
    IF rejection # NoResp
    THEN resp' = rejection /\ UNCHANGED <<ret, log>>
    ELSE MaterialCalls(calculate_material_quantity(service_type, material_type,
                                                   PyInt(int(form_quantity)),
                                                   PyFloat(float(form_service_params))))

RunMaterial ==
    /\ pc = "called" /\ req.kind = "material"
    /\ material(MaterialRejects(req.form_quantity, req.form_service_params),
                req.service_type, req.material_type, req.form_quantity, req.form_service_params)
    /\ pc' = "done"
    /\ UNCHANGED <<tables, req, concvars, partnervars>>

\* the caller has its answer; nothing of the call outlives it
Return ==
    /\ pc = "done"
    /\ pc' = "idle" /\ req' = NoReq /\ ret' = NoRet /\ log' = "" /\ resp' = NoResp
    /\ UNCHANGED <<tables, concvars, partnervars>>

CallIdle == pc = "idle" /\ req = NoReq /\ ret = NoRet /\ log = "" /\ resp = NoResp

NoLocals == <<>>
NoSession == [services |-> <<>>, service_materials |-> <<>>, materials |-> <<>>]
NoHist == <<>>
NoForm == <<>>

\* what a query inside an open transaction sees is up to the store DATABASE_URL names
Isolations == {"read_committed", "repeatable_read"}

ConcDormant ==
    /\ wpc = [w \in Workers |-> "idle"]
    /\ wloc = [w \in Workers |-> NoLocals]
    /\ session = [w \in Workers |-> NoSession]
    /\ hist = [w \in Workers |-> NoHist]
    /\ nupdates = 0

PartnerDormant ==
    /\ ppc = [w \in Workers |-> "idle"]
    /\ preq = [w \in Workers |-> NoForm]
    /\ nreq = 0

(***************************************************************************)
(* Spec: both engine operations and both handlers that call them           *)
(***************************************************************************)
Init ==
    /\ CostTablesIn({50}, {3}, {400}, {5000}, {"S1"})
    /\ TypeTablesIn({1}, {0})
    /\ PartnerTablesFixed /\ CallIdle /\ PartnerDormant
    /\ isolation \in Isolations /\ ConcDormant

Next ==
    \/ InvokeServiceCost
    \/ RunServiceCost
    \/ InvokeMaterialQuantity
    \/ RunMaterialQuantity
    \/ InvokeCost
    \/ RunCost
    \/ InvokeMaterial
    \/ RunMaterial
    \/ Return

Spec == Init /\ [][Next]_vars

(***************************************************************************)
(* SpecCost: calculate_service_cost over a wider family of catalogs        *)
(***************************************************************************)
InitCost ==
    /\ CostTablesIn({50, 200}, {3, 50000}, {400}, {101, 5000}, Codes)
    /\ TypeTablesIn({1}, {0})
    /\ PartnerTablesFixed /\ CallIdle /\ PartnerDormant
    /\ isolation \in Isolations /\ ConcDormant

NextCost ==
    \/ InvokeServiceCost
    \/ RunServiceCost
    \/ Return

SpecCost == InitCost /\ [][NextCost]_vars

(***************************************************************************)
(* SpecQuantity: calculate_material_quantity over coefficients and         *)
(* percents                                                                *)
(***************************************************************************)
InitQuantity ==
    /\ services = [c \in {"S1"} |-> [time_norm_hours |-> 200, hourly_rate |-> 50000]]
    /\ materials = [m \in {1} |-> [current_price |-> 5000]]
    /\ service_materials = <<[service_code |-> "S1", material_id |-> 1, consumption_norm |-> 400]>>
    /\ TypeTablesIn({1, 8, 15}, {0, 10, 25})
    /\ PartnerTablesFixed /\ CallIdle /\ PartnerDormant
    /\ isolation \in Isolations /\ ConcDormant

NextQuantity ==
    \/ InvokeMaterialQuantity
    \/ RunMaterialQuantity
    \/ Return

SpecQuantity == InitQuantity /\ [][NextQuantity]_vars

(***************************************************************************)
(* SpecConcurrent: /cost requests served by two workers, one query at a    *)
(* time, while prices and consumption norms are updated and committed by   *)
(* others.  Each worker has its own db.session.  DATABASE_URL decides the  *)
(* store, and with it what a query inside an open transaction sees: the    *)
(* rows committed when the query runs (read committed), or those committed *)
(* when the transaction's first query ran (repeatable read).               *)
(***************************************************************************)
Prices == {101, 5000}
Norms == {100, 400}

Catalog == [services |-> services, service_materials |-> service_materials, materials |-> materials]

\* the table a query of worker w reads
Seen(w, committed, first) == IF isolation = "repeatable_read" THEN first ELSE committed

\* the object a query returns for the row `row` with primary key `key`: the one the
\* session's identity map already holds, if any, with the attributes it was loaded with
Identity(map, key, row) == IF key \in DOMAIN map THEN map[key] ELSE row

\* the identity map after the query returned `object` for `key`
Holding(map, key, object) == [k \in DOMAIN map \cup {key} |-> IF k = key THEN object ELSE map[k]]

RowKey(sm) == <<sm.service_code, sm.material_id>>

\* the objects of the rows `rows`, through the identity map
RowObjects(map, rows) == [i \in 1..Len(rows) |-> Identity(map, RowKey(rows[i]), rows[i])]

RECURSIVE HoldingRows(_, _, _)
HoldingRows(map, objects, i) ==
    IF i > Len(objects) THEN map
    ELSE HoldingRows(Holding(map, RowKey(objects[i]), objects[i]), objects, i + 1)

Failing(locals) == [locals EXCEPT !.total = CostFailure]

\* the call is made and runs its first query: Service.query.filter_by(...).first()
WCallFound(w, c, service) ==
    /\ wloc' = [wloc EXCEPT ![w] = [service_code |-> c, labor_cost |-> LaborCost(service),
                                     rows |-> <<>>, i |-> 1, material_cost |-> FZero, total |-> 0]]
    /\ session' = [session EXCEPT ![w].services = Holding(@, c, service)]
    /\ wpc' = [wpc EXCEPT ![w] = "rows"]

WCallMissing(w, c) ==
    /\ wloc' = [wloc EXCEPT ![w] = [service_code |-> c, labor_cost |-> FZero,
                                     rows |-> <<>>, i |-> 1, material_cost |-> FZero,
                                     total |-> CostFailure]]
    /\ wpc' = [wpc EXCEPT ![w] = "returned"]
    /\ UNCHANGED session

WCall(w) ==
    /\ wpc[w] = "idle"
    /\ \E c \in Codes :
          IF c \in DOMAIN services
          THEN WCallFound(w, c, Identity(session[w].services, c, services[c]))
          ELSE WCallMissing(w, c)
    /\ hist' = [hist EXCEPT ![w] = [at_call |-> Catalog, changed |-> FALSE]]
    /\ UNCHANGED <<tables, callvars, isolation, nupdates, partnervars>>

\* ServiceMaterial.query.filter_by(service_code=service_code).all()
WRowsAre(w, objects) ==
    IF objects = <<>>
    THEN /\ wloc' = [wloc EXCEPT ![w] = Failing(@)]
         /\ wpc' = [wpc EXCEPT ![w] = "returned"]
         /\ UNCHANGED session
    ELSE /\ wloc' = [wloc EXCEPT ![w].rows = objects]
         /\ session' = [session EXCEPT ![w].service_materials = HoldingRows(@, objects, 1)]
         /\ wpc' = [wpc EXCEPT ![w] = "material"]

WQueryRows(w) ==
    /\ wpc[w] = "rows"
    /\ WRowsAre(w, RowObjects(session[w].service_materials,
                              RowsOf(Seen(w, service_materials, hist[w].at_call.service_materials),
                                     wloc[w].service_code)))
    /\ UNCHANGED <<tables, callvars, isolation, hist, nupdates, partnervars>>

\* one turn of the for loop: Material.query.filter_by(material_id=sm.material_id).first()
\* and material_cost += float(sm.consumption_norm * material.current_price)
WMaterialIs(w, sm, mat) ==
    /\ wloc' = [wloc EXCEPT ![w].material_cost = FAdd(@, MaterialTerm(sm, mat)),
                            ![w].i = @ + 1]
    /\ session' = [session EXCEPT ![w].materials = Holding(@, sm.material_id, mat)]
    /\ UNCHANGED wpc

WMaterialMissing(w) ==
    /\ wloc' = [wloc EXCEPT ![w] = Failing(@)]
    /\ wpc' = [wpc EXCEPT ![w] = "returned"]
    /\ UNCHANGED session

WMaterialIn(w, sm, mats) ==
    IF sm.material_id \in DOMAIN mats
    THEN WMaterialIs(w, sm, Identity(session[w].materials, sm.material_id, mats[sm.material_id]))
    ELSE WMaterialMissing(w)

WQueryMaterial(w) ==
    /\ wpc[w] = "material" /\ wloc[w].i <= Len(wloc[w].rows)
    /\ WMaterialIn(w, wloc[w].rows[wloc[w].i], Seen(w, materials, hist[w].at_call.materials))
    /\ UNCHANGED <<tables, callvars, isolation, hist, nupdates, partnervars>>

\* total_cost = labor_cost + material_cost; return round(total_cost, 2)
WReturn(w) ==
    /\ wpc[w] = "material" /\ wloc[w].i > Len(wloc[w].rows)
    /\ wloc' = [wloc EXCEPT ![w].total = round2(FAdd(wloc[w].labor_cost, wloc[w].material_cost))]
    /\ wpc' = [wpc EXCEPT ![w] = "returned"]
    /\ UNCHANGED <<tables, callvars, isolation, session, hist, nupdates, partnervars>>

\* WEndRequest without the removal of the session: its identity map outlives the request
WEndRequestKeepingSession(w) ==
    /\ wpc[w] = "returned"
    /\ wpc' = [wpc EXCEPT ![w] = "idle"]
    /\ wloc' = [wloc EXCEPT ![w] = NoLocals]
    /\ hist' = [hist EXCEPT ![w] = NoHist]
    /\ UNCHANGED <<tables, callvars, isolation, session, nupdates, partnervars>>

\* the request ends: the app context is torn down and db.session removed, its
\* transaction and its identity map with it
WEndRequest(w) ==
    /\ wpc[w] = "returned"
    /\ wpc' = [wpc EXCEPT ![w] = "idle"]
    /\ wloc' = [wloc EXCEPT ![w] = NoLocals]
    /\ session' = [session EXCEPT ![w] = NoSession]
    /\ hist' = [hist EXCEPT ![w] = NoHist]
    /\ UNCHANGED <<tables, callvars, isolation, nupdates, partnervars>>

\* the call of worker w is under way and has queries still to run
QueriesAhead(w) == wpc[w] = "rows" \/ (wpc[w] = "material" /\ wloc[w].i <= Len(wloc[w].rows))

\* a write to the catalog commits: the calls with queries still to run have had the
\* catalog change under them
Committed ==
    /\ nupdates < MaxUpdates
    /\ nupdates' = nupdates + 1
    /\ hist' = [w \in Workers |-> IF QueriesAhead(w)
                                  THEN [hist[w] EXCEPT !.changed = TRUE] ELSE hist[w]]
    /\ UNCHANGED <<callvars, isolation, wpc, wloc, session, partnervars>>

\* someone commits a new price of a material
UpdatePrice ==
    /\ \E m \in DOMAIN materials, p \in Prices :
          /\ p # materials[m].current_price
          /\ materials' = [materials EXCEPT ![m].current_price = p]
    /\ Committed
    /\ UNCHANGED <<service_types, material_types, services, service_materials, partners, orders>>

\* someone commits a new consumption norm of a row
UpdateNorm ==
    /\ \E i \in 1..Len(service_materials), n \in Norms :
          /\ n # service_materials[i].consumption_norm
          /\ service_materials' = [service_materials EXCEPT ![i].consumption_norm = n]
    /\ Committed
    /\ UNCHANGED <<service_types, material_types, services, materials, partners, orders>>

InitConcurrent ==
    /\ services = [c \in {"S1"} |-> [time_norm_hours |-> 50, hourly_rate |-> 3]]
    /\ materials \in [MaterialIds -> [current_price : {101}]]
    /\ service_materials \in
          {<<[service_code |-> "S1", material_id |-> 1, consumption_norm |-> 400]>>,
           <<[service_code |-> "S1", material_id |-> 1, consumption_norm |-> 400],
             [service_code |-> "S1", material_id |-> 2, consumption_norm |-> 400]>>}
    /\ TypeTablesIn({1}, {0})
    /\ PartnerTablesFixed /\ CallIdle /\ PartnerDormant
    /\ isolation \in Isolations /\ ConcDormant

NextConcurrent ==
    \/ \E w \in Workers : WCall(w)
    \/ \E w \in Workers : WQueryRows(w)
    \/ \E w \in Workers : WQueryMaterial(w)
    \/ \E w \in Workers : WReturn(w)
    \/ \E w \in Workers : WEndRequest(w)
    \/ UpdatePrice
    \/ UpdateNorm

SpecConcurrent == InitConcurrent /\ [][NextConcurrent]_vars

(***************************************************************************)
(* SpecPartners: the partner form (edit_partner, POST) served by two       *)
(* workers, one query at a time                                            *)
(***************************************************************************)
Names == {"n1", "n2"}
Inns == {"i1", "i2"}
FormIds == {0, 1, 2}

NoPartner == [partner_name |-> "", inn |-> ""]

\* Partner.partner_name and Partner.inn are declared unique=True: the store refuses a
\* write that would leave two rows with the same value in either column
Unconstrained(table) == TRUE

UniqueConstraintsHold(table) ==
    \A a, b \in DOMAIN table :
        a # b => table[a].partner_name # table[b].partner_name /\ table[a].inn # table[b].inn

\* the partners table a query of worker w reads
PartnersSeen(w) == Seen(w, partners, preq[w].first)

\* worker w answers with an error
Rejects(w, why) ==
    /\ ppc' = [ppc EXCEPT ![w] = "rejected"]
    /\ preq' = [preq EXCEPT ![w].why = why]

\* a POST of the form arrives: partner_id 0 stands for /partner/new, `valid` for the
\* outcome of the checks of the other fields
PSubmit(w) ==
    /\ ppc[w] = "idle" /\ nreq < MaxRequests
    /\ \E id \in FormIds, name \in Names, inn \in Inns, valid \in BOOLEAN :
          preq' = [preq EXCEPT ![w] = [partner_id |-> id, partner_name |-> name, inn |-> inn,
                                       valid |-> valid, loaded |-> NoPartner,
                                       first |-> partners, why |-> ""]]
    /\ ppc' = [ppc EXCEPT ![w] = "submitted"]
    /\ nreq' = nreq + 1
    /\ UNCHANGED <<tables, callvars, concvars>>

\* the validation of the fields, and for an edit Partner.query.get_or_404(partner_id):
\* the first query of the request
PValidate(w) ==
    /\ ppc[w] = "submitted"
    /\ IF ~preq[w].valid THEN Rejects(w, "validation")
       ELSE IF preq[w].partner_id = 0
            THEN /\ ppc' = [ppc EXCEPT ![w] = "check_name"]
                 /\ preq' = [preq EXCEPT ![w].first = partners]
            ELSE IF preq[w].partner_id \notin DOMAIN partners THEN Rejects(w, "not found")
            ELSE /\ ppc' = [ppc EXCEPT ![w] = "check_name"]
                 /\ preq' = [preq EXCEPT ![w].first = partners,
                                         ![w].loaded = partners[preq[w].partner_id]]
    /\ UNCHANGED <<tables, callvars, concvars, nreq>>

\* the query for another partner with this partner_name
PCheckName(w) ==
    /\ ppc[w] = "check_name"
    /\ IF \E id \in DOMAIN PartnersSeen(w) :
             id # preq[w].partner_id /\ PartnersSeen(w)[id].partner_name = preq[w].partner_name
       THEN Rejects(w, "name exists")
       ELSE ppc' = [ppc EXCEPT ![w] = "check_inn"] /\ UNCHANGED preq
    /\ UNCHANGED <<tables, callvars, concvars, nreq>>

\* the query for another partner with this inn
PCheckInn(w) ==
    /\ ppc[w] = "check_inn"
    /\ IF \E id \in DOMAIN PartnersSeen(w) :
             id # preq[w].partner_id /\ PartnersSeen(w)[id].inn = preq[w].inn
       THEN Rejects(w, "inn exists")
       ELSE ppc' = [ppc EXCEPT ![w] = "commit"] /\ UNCHANGED preq
    /\ UNCHANGED <<tables, callvars, concvars, nreq>>

\* the row an edit leaves: the UPDATE sets the columns whose form value differs from
\* the value the object was loaded with
Edited(row, loaded, form) ==
    [partner_name |-> IF form.partner_name # loaded.partner_name THEN form.partner_name
                      ELSE row.partner_name,
     inn |-> IF form.inn # loaded.inn THEN form.inn ELSE row.inn]

\* the table after the INSERT or UPDATE of the request
Written(table, form) ==
    IF form.partner_id = 0
    THEN [id \in DOMAIN table \cup {Cardinality(DOMAIN table) + 1} |->
             IF id \in DOMAIN table THEN table[id]
             ELSE [partner_name |-> form.partner_name, inn |-> form.inn]]
    ELSE [table EXCEPT ![form.partner_id] = Edited(@, form.loaded, form)]

\* db.session.commit(): the write is flushed and committed, or the store raises
\* IntegrityError and the handler rolls back
PCommitOf(w, table) ==
    IF UniqueConstraintsHold(table)
    THEN /\ partners' = table
         /\ ppc' = [ppc EXCEPT ![w] = "accepted"]
         /\ UNCHANGED preq
    ELSE /\ Rejects(w, "integrity error")
         /\ UNCHANGED partners

\* under repeatable read the store may refuse the UPDATE of a row that was committed
\* anew since the transaction's first query; the handler answers with the error
PCommitConflict(w) ==
    /\ isolation = "repeatable_read" /\ preq[w].partner_id # 0
    /\ partners[preq[w].partner_id] # preq[w].first[preq[w].partner_id]
    /\ Rejects(w, "conflict")
    /\ UNCHANGED partners

PCommit(w) ==
    /\ ppc[w] = "commit"
    /\ PCommitOf(w, Written(partners, preq[w])) \/ PCommitConflict(w)
    /\ UNCHANGED <<service_types, material_types, services, materials, service_materials, orders,
                   callvars, concvars, nreq>>

\* the redirect is sent and the request ends
PFinish(w) ==
    /\ ppc[w] \in {"accepted", "rejected"}
    /\ ppc' = [ppc EXCEPT ![w] = "idle"]
    /\ preq' = [preq EXCEPT ![w] = NoForm]
    /\ UNCHANGED <<tables, callvars, concvars, nreq>>

InitPartners ==
    /\ services = [c \in {"S1"} |-> [time_norm_hours |-> 50, hourly_rate |-> 3]]
    /\ materials = [m \in {1} |-> [current_price |-> 5000]]
    /\ service_materials = <<>>
    /\ TypeTablesIn({1}, {0})
    /\ PartnerTablesFixed /\ CallIdle
    /\ isolation \in Isolations /\ ConcDormant
    /\ PartnerDormant

NextPartners ==
    \/ \E w \in Workers : PSubmit(w)
    \/ \E w \in Workers : PValidate(w)
    \/ \E w \in Workers : PCheckName(w)
    \/ \E w \in Workers : PCheckInn(w)
    \/ \E w \in Workers : PCommit(w)
    \/ \E w \in Workers : PFinish(w)

SpecPartners == InitPartners /\ [][NextPartners]_vars

(***************************************************************************)
(* Exact arithmetic the engine's results are compared with                 *)
(***************************************************************************)
\* the call or request of this kind has been served
Done(kind) == pc = "done" /\ req.kind = kind

\* the rows of service_materials of a service, as a set of indices
RowIndices(service_code) ==
    {i \in 1..Len(service_materials) : service_materials[i].service_code = service_code}

RECURSIVE SumOver(_, _)
SumOver(f, S) == IF S = {} THEN 0 ELSE LET x == CHOOSE y \in S : TRUE IN f[x] + SumOver(f, S \ {x})

\* timeNormHours*hourlyRate + the sum of consumptionNorm*currentPrice, in ten-thousandths
ExactTotal(service_code) ==
    services[service_code].time_norm_hours * services[service_code].hourly_rate
    + SumOver([i \in RowIndices(service_code) |->
                  service_materials[i].consumption_norm
                  * materials[service_materials[i].material_id].current_price],
              RowIndices(service_code))

\* ten-thousandths rounded to hundredths, half up and half to even
RoundHalfUp(x) == (x + 50) \div 100
RoundHalfEven(x) ==
    IF x % 100 > 50 \/ (x % 100 = 50 /\ (x \div 100) % 2 = 1) THEN x \div 100 + 1 ELSE x \div 100

\* the service exists, has rows, and every row's material exists
Resolvable(service_code) ==
    /\ service_code \in DOMAIN services
    /\ RowIndices(service_code) # {}
    /\ \A i \in RowIndices(service_code) : service_materials[i].material_id \in DOMAIN materials

DivBig(a, d) == DivSmall(a, d, Len(a), 0, <<>>)

CeilQuotient(dr) == BigToInt(dr.q) + (IF dr.r # 0 THEN 1 ELSE 0)
CeilShifted(t, rest) == BigToInt(t.q) + (IF t.sticky \/ rest THEN 1 ELSE 0)
CeilQuotientShifted(dr, k) == CeilShifted(ShiftRight(dr.q, k), dr.r # 0)

\* the least integer not below a * 2^e / d
CeilRatio(a, e, d) ==
    IF e >= 0 THEN CeilQuotient(DivBig(ShiftLeft(a, e), d)) ELSE CeilQuotientShifted(DivBig(a, d), 0 - e)

\* ceiling(x * coefficient * quantity * (1 + percent)) for the float x, a coefficient in
\* tenths and a percent in hundredths
ExactQuantity(x, coefficient, quantity, percent) ==
    CeilRatio(BigMul(x.m, IntToBig(coefficient * quantity * (100 + percent))), x.e, 1000)

\* ceiling(x * coefficient * quantity)
ExactBase(x, coefficient, quantity) == CeilRatio(BigMul(x.m, IntToBig(coefficient * quantity)), x.e, 10)

RECURSIVE BigLeFrom(_, _, _)
BigLeFrom(a, b, i) == IF i = 0 THEN TRUE ELSE IF a[i] # b[i] THEN a[i] < b[i] ELSE BigLeFrom(a, b, i - 1)

\* x <= y for positive floats (significands of 53 bits)
FLe(x, y) == IF x.e # y.e THEN x.e < y.e ELSE BigLeFrom(x.m, y.m, Len(x.m))

\* a positive integer quantity, a positive number service_params
PositiveInt(quantity) == quantity.t = "int" /\ quantity.i > 0
PositiveNumber(service_params) ==
    \/ service_params.t = "int" /\ service_params.i > 0
    \/ service_params.t = "float" /\ ~service_params.f.nan /\ ~service_params.f.neg
       /\ service_params.f.m # <<>>

\* the served call of calculate_material_quantity named existing types and passed
\* a positive integer and a positive number
ValidQuantityCall ==
    /\ Done("calculate_material_quantity")
    /\ req.service_type \in DOMAIN service_types /\ req.material_type \in DOMAIN material_types
    /\ PositiveInt(req.quantity) /\ PositiveNumber(req.service_params)

(***************************************************************************)
(* The claims                                                              *)
(***************************************************************************)
\* C1: for a service that exists, has rows and whose rows all reference existing
\* materials, calculate_service_cost returns a value >= 0 equal to
\* timeNormHours*hourlyRate + the sum of consumptionNorm*currentPrice rounded to two
\* decimal places (under either rounding of a tie)
C1_CostIsTheRoundedFormula ==
    (Done("calculate_service_cost") /\ Resolvable(req.service_code)) =>
        /\ ret.value >= 0
        /\ ret.value \in {RoundHalfUp(ExactTotal(req.service_code)),
                          RoundHalfEven(ExactTotal(req.service_code))}

\* the spec's example (2.0 h at 500.00, one row of norm 4 at price 50.00) gives 1200.00
C1_ExampleServed ==
    /\ Done("calculate_service_cost") /\ Resolvable(req.service_code)
    /\ services[req.service_code] = [time_norm_hours |-> 200, hourly_rate |-> 50000]
    /\ Cardinality(RowIndices(req.service_code)) = 1
    /\ \A i \in RowIndices(req.service_code) :
          materials[service_materials[i].material_id].current_price = 5000
    /\ ret.value = 120000

\* C2: calculate_service_cost returns the failure signal exactly when the service code
\* is unknown, the service has no consumption rows, or some row of it (at any position)
\* references a material that does not exist; it never returns a partial cost
C2_FailureExactlyWhenUnresolvable ==
    Done("calculate_service_cost") => (ret.value = CostFailure <=> ~Resolvable(req.service_code))

\* a service with two rows, the first resolvable and the second not, was served
C2_MissingMaterialAfterAGoodRow ==
    /\ Done("calculate_service_cost")
    /\ req.service_code \in DOMAIN services
    /\ \E i, j \in RowIndices(req.service_code) :
          /\ i < j
          /\ service_materials[i].material_id \in DOMAIN materials
          /\ service_materials[j].material_id \notin DOMAIN materials
    /\ ret.value = CostFailure

\* C3: for existing types, a positive integer quantity and a positive serviceParams,
\* calculate_material_quantity returns exactly
\* ceiling(serviceParams * complexityCoefficient * quantity * (1 + overconsumptionPercent))
C3_QuantityIsTheExactCeiling ==
    ValidQuantityCall =>
        ret.value = ExactQuantity(AsFloat(req.service_params), service_types[req.service_type],
                                  req.quantity.i, material_types[req.material_type])

\* the spec's example (coefficient 1.5, percent 0.10, quantity 3, serviceParams 2.0) gives 10
C3_ExampleServed ==
    /\ ValidQuantityCall
    /\ service_types[req.service_type] = 15 /\ material_types[req.material_type] = 10
    /\ req.quantity = PyInt(3) /\ req.service_params = PyFloat(FromInt(2))
    /\ ret.value = 10

Category(msg) ==
    CASE msg \in {"Service not found", "Material not found for service material",
                  "Service type not found", "Material type not found"} -> "NotFound"
      [] msg \in {"Invalid quantity", "Invalid service_params"} -> "InvalidInput"
      [] msg = "No materials found for service" -> "NoMaterials"
      [] OTHER -> "Other"

\* the result of call o can be told from a failure of category c that returned v
ToldApart(o, c, v) == (o.log # "" /\ Category(o.log) # c) => o.value # v

\* C5: a failed engine call returns a failure signal that tells the category: any call
\* on the same catalog that fails for another category returns something
\* distinguishable, and the failure result is no value of the result domain
C5_FailureTellsItsCategory ==
    /\ (Done("calculate_service_cost") /\ log # "") =>
          /\ ret.value \notin Nat
          /\ \A c \in CallCodes : ToldApart(calculate_service_cost(c), Category(log), ret.value)
    /\ (Done("calculate_material_quantity") /\ log # "") =>
          /\ ret.value \notin Nat
          /\ \A st \in CallServiceTypes, q \in Quantities :
                ToldApart(calculate_material_quantity(st, req.material_type, q, req.service_params),
                          Category(log), ret.value)

\* C6: for existing types, quantity > 0 and serviceParams > 0 the result is a positive
\* integer >= ceiling(serviceParams * complexityCoefficient * quantity), and no smaller
\* quantity and no smaller serviceParams gives a larger result
C6_QuantityBoundedBelowAndMonotone ==
    ValidQuantityCall =>
        /\ ret.value > 0
        /\ ret.value >= ExactBase(AsFloat(req.service_params), service_types[req.service_type],
                                  req.quantity.i)
        /\ \A q \in 1..req.quantity.i :
              calculate_material_quantity(req.service_type, req.material_type, PyInt(q),
                                          req.service_params).value <= ret.value
        /\ \A sp \in Params :
              (PositiveNumber(sp) /\ FLe(AsFloat(sp), AsFloat(req.service_params))) =>
                  calculate_material_quantity(req.service_type, req.material_type, req.quantity,
                                              sp).value <= ret.value

\* C7: the step that serves an engine call, directly or inside a handler, and whether
\* the call succeeds or fails, leaves every table unchanged
C7_EngineCallsWriteNothing ==
    [][(pc = "called" /\ pc' = "done") => tables' = tables]_vars

\* a failed engine call has been served on a catalog with a dangling row
C7_FailedCallServed ==
    /\ Done("calculate_service_cost") /\ ret.value = CostFailure
    /\ \E i \in 1..Len(service_materials) : service_materials[i].material_id \notin DOMAIN materials

\* the cost formula of the engine on the catalog committed when worker w made its call
CostAtCall(w) ==
    ServiceCostOn(hist[w].at_call.services, hist[w].at_call.service_materials,
                  hist[w].at_call.materials, wloc[w].service_code).value

\* C8 as claimed: whatever commits while a call runs, also between its lookups, the
\* call returns the cost formula evaluated on the catalog committed when it was made
C8_ReturnsTheCostAtCallTime ==
    \A w \in Workers : wpc[w] = "returned" => wloc[w].total = CostAtCall(w)

\* C8 as amended: a call returns the cost formula evaluated on the catalog committed
\* when it was made if the store gives its transaction repeatable reads or if nothing
\* commits before its last lookup has run; whatever committed before the call, also
\* between two calls of the same worker, is in the value
C8_ReturnsTheCostAtCallTimeIfUndisturbed ==
    \A w \in Workers :
        (wpc[w] = "returned" /\ (isolation = "repeatable_read" \/ ~hist[w].changed)) =>
            wloc[w].total = CostAtCall(w)

\* under read committed, a call over two rows returned a cost after an update had
\* committed before it and none during it
C8_CallAfterAnUpdate ==
    \E w \in Workers :
        /\ wpc[w] = "returned" /\ isolation = "read_committed" /\ ~hist[w].changed
        /\ nupdates > 0 /\ Len(wloc[w].rows) = 2 /\ wloc[w].total # CostFailure
        /\ wloc[w].total = CostAtCall(w)

\* C9: when calculate_service_cost fails the /cost handler answers with an error and
\* does not render the cost page with the failure value as total_cost; when
\* calculate_material_quantity fails the /material handler answers with an error and
\* reports no quantity
C9_FailureIsNeverPresentedAsAResult ==
    /\ (Done("cost") /\ ret.value = CostFailure) =>
          resp.flash = "error" /\ ~(resp.page = "cost.html" /\ resp.shown = <<CostFailure>>)
    /\ (Done("material") /\ ret.fn = "calculate_material_quantity" /\ ret.value = QuantityFailure) =>
          resp.flash = "error" /\ resp.shown = <<>>

\* the /material handler answered a failed calculation with an error
C9_MaterialFailureAnswered ==
    /\ Done("material") /\ ret.fn = "calculate_material_quantity" /\ ret.value = QuantityFailure
    /\ resp.flash = "error"

\* no two partner records share a partner_name or an inn
NoDuplicatePartners ==
    \A a, b \in DOMAIN partners :
        a # b => partners[a].partner_name # partners[b].partner_name
                 /\ partners[a].inn # partners[b].inn

\* C10: after any interleaving of create and edit requests no two partners share a
\* partner_name or an inn, and the step that rejects a request (at the pre-check or at
\* the commit) leaves the partners table as it was
C10_PartnersStayUnique ==
    /\ []NoDuplicatePartners
    /\ [][(\E w \in Workers : ppc[w] # "rejected" /\ ppc'[w] = "rejected") => partners' = partners]_vars

\* two requests passed both pre-checks before either committed; one was accepted and
\* the other refused by the store at its commit
C10_RaceLostAtCommit ==
    \E w, v \in Workers :
        /\ ppc[w] = "accepted" /\ ppc[v] = "rejected" /\ preq[v].why = "integrity error"
        /\ preq[w].partner_id = 0 /\ preq[v].partner_id = 0
        /\ preq[w].first = preq[v].first

====
